---- MODULE Spec2Model ----
(***************************************************************************)
(* Model of presiongpu.py: a script that polls an NVIDIA GPU, appends each *)
(* sample to a CSV file and draws the last VENTANA_SEGUNDOS seconds as two *)
(* bar charts.                                                             *)
(*                                                                         *)
(* Units.  Times are integers in milliseconds (time.time() is a float in   *)
(* seconds; the CSV keeps three decimals of it).  Percentages are integers *)
(* in hundredths of a percent (the CSV keeps two decimals).  Colour        *)
(* components are integers in 1/10000 (so 10000 is 1.0).  The bar width is *)
(* an exact fraction [num, den] of milliseconds.                           *)
(***************************************************************************)
EXTENDS Integers, Sequences, FiniteSets, TLC

\* ========= CONFIGURACION (src/presiongpu.py:27-30) =========
GPU_INDEX == 0
\* INTERVALO_MUESTREO = 0.5 seconds, in milliseconds
INTERVALO_MUESTREO == 500
VENTANA_SEGUNDOS == 60
\* the window in milliseconds
Ventana == VENTANA_SEGUNDOS * 1000

\* ========= bounds and inputs of the model =========
\* clock readings taken by all runs together
MaxTicks == 3
\* process runs against the same RUTA_CSV
MaxCorridas == 2
\* what time.time() may return (ms).  time.time() is the wall clock: it is
\* not monotonic, a later call may return a lower value.
Relojes == {0, 60000, 95000}
\* what nvmlDeviceGetUtilizationRates(handle).gpu may return (percent)
UtilLecturas == {25}
\* what nvmlDeviceGetMemoryInfo(handle) may return: <<used, total>>
MemLecturas == {<<3, 4>>}

VARIABLES
    pc,            \* the statement the process is about to execute
    existe,        \* os.path.exists(RUTA_CSV)
    disco,         \* the rows of RUTA_CSV that reached the file
    nuevo,         \* line 33
    f_csv,         \* the file object: "ninguno", "abierto", "cerrado"
    buf,           \* rows written through w_csv and not flushed yet
    nvml,          \* "no_iniciado", "activo", "apagado"
    t_muestras, proc_vals, mem_vals,      \* the three deques
    ahora, carga_proc, carga_mem,         \* the locals of one tick
    x, width, colores_proc, colores_mem,  \* the render geometry of one tick
    dibujo,        \* what the two bar charts were last drawn with
    exc,           \* the exception being propagated, "ninguna" if none
    salida,        \* the exit status, -1 while the process runs
    \* history of the run, read by the properties only
    causa,         \* what first went wrong: "ninguna", "error", "interrupcion", "kill"
    donde,         \* the statement at which it went wrong
    corridas,      \* process runs started so far
    ticks,         \* clock readings taken so far (all runs)
    ticks_ini,     \* ticks when this run started
    disco_ini,     \* disco when this run started
    paso           \* the interval between the clock readings when the operator
                   \* samples at a regular pace, 0 when the readings are free

vars == <<pc, existe, disco, nuevo, f_csv, buf, nvml, t_muestras, proc_vals,
          mem_vals, ahora, carga_proc, carga_mem, x, width, colores_proc,
          colores_mem, dibujo, exc, salida, causa, donde, corridas, ticks,
          ticks_ini, disco_ini, paso>>

\* the variables of one process run that an action of the set-up or of the
\* exit path leaves alone
tick_vars == <<t_muestras, proc_vals, mem_vals, ahora, carga_proc, carga_mem,
               x, width, colores_proc, colores_mem, dibujo>>
hist_vars == <<corridas, ticks, ticks_ini, disco_ini, paso>>

\* the statements before the try block, and those inside it
PcsInicio == {"import", "csv_existe", "csv_abre", "csv_cabecera", "csv_flush",
              "nvml_init", "handle", "nombre", "buffers", "grafico"}
PcsBucle == {"reloj", "util", "meminfo", "escribe", "flush", "anade_t",
             "anade_proc", "anade_mem", "recorta", "geometria", "colores",
             "dibuja", "pausa"}
PcsFinal == {"except", "finally_close", "finally_shutdown"}

\* ========= CSV rows =========
\* a row is [cab |-> is it the header, campos |-> its four fields]
Cabecera == [cab |-> TRUE,
             campos |-> <<"epoch", "fecha_completa", "carga_procesador", "carga_memoria">>]
\* f"{ahora:.3f}": whole seconds and three decimals
FormatoEpoch(t) == <<t \div 1000, t % 1000>>
\* datetime.fromtimestamp(ahora).isoformat(sep=" ", timespec="seconds"):
\* the time cut to whole seconds
FormatoFecha(t) == t \div 1000
\* f"{v:.2f}": whole percent and two decimals
FormatoPct(v) == <<v \div 100, v % 100>>
FilaMuestra(t, p, m) ==
    [cab |-> FALSE,
     campos |-> <<FormatoEpoch(t), FormatoFecha(t), FormatoPct(p), FormatoPct(m)>>]

\* ========= the process ends =========
\* The process ends with status c and the finally block does not run (an
\* exception outside the try block, or raised inside the finally block).
\* Rows still in the file object's buffer reach the file only if the
\* interpreter's shutdown happens to flush the object.
SaleSinFinally(c) ==
    /\ pc' = "fin"
    /\ salida' = c
    /\ \/ disco' = disco \o buf
       \/ disco' = disco
    /\ buf' = <<>>

\* statement s raises an exception outside the try block
FallaInicio(s) ==
    /\ causa' = "error"
    /\ donde' = s
    /\ exc' = "Error"
    /\ SaleSinFinally(1)

\* statement s raises an exception (not KeyboardInterrupt) inside the try
\* block: the except clause does not match, the finally block runs
FallaBucle(s) ==
    /\ causa' = "error"
    /\ donde' = s
    /\ exc' = "Error"
    /\ pc' = "finally_close"

\* ========= Init =========
\* The first run is about to start; RUTA_CSV does not exist.
AnchoPorDefecto == [num |-> INTERVALO_MUESTREO, den |-> 1]
SinDibujo == [x |-> <<>>, proc |-> <<>>, mem |-> <<>>, width |-> AnchoPorDefecto,
              colores_proc |-> <<>>, colores_mem |-> <<>>]

\* the state of a process that has just been started
Arranque ==
    /\ pc = "import"
    /\ nuevo = FALSE
    /\ f_csv = "ninguno"
    /\ buf = <<>>
    /\ nvml = "no_iniciado"
    /\ t_muestras = <<>> /\ proc_vals = <<>> /\ mem_vals = <<>>
    /\ ahora = 0 /\ carga_proc = 0 /\ carga_mem = 0
    /\ x = <<>> /\ width = AnchoPorDefecto
    /\ colores_proc = <<>> /\ colores_mem = <<>>
    /\ dibujo = SinDibujo
    /\ exc = "ninguna"
    /\ salida = -1
    /\ causa = "ninguna"
    /\ donde = "ninguno"

Init ==
    /\ Arranque
    /\ existe = FALSE
    /\ disco = <<>>
    /\ corridas = 1
    /\ ticks = 0
    /\ ticks_ini = 0
    /\ disco_ini = <<>>
    /\ paso = 0

\* ========= set-up, lines 10-80 (outside the try block) =========
\* lines 10-24: the imports; without pynvml the script raises SystemExit
ImportarOk ==
    /\ pc = "import"
    /\ pc' = "csv_existe"
    /\ UNCHANGED <<existe, disco, nuevo, f_csv, buf, nvml, exc, salida, causa,
                   donde, tick_vars, hist_vars>>

ImportarFalla ==
    /\ pc = "import"
    /\ pc' = "fin"
    /\ salida' = 1
    /\ exc' = "SystemExit"
    /\ causa' = "error"
    /\ donde' = "import"
    /\ UNCHANGED <<existe, disco, nuevo, f_csv, buf, nvml, tick_vars, hist_vars>>

\* line 33: nuevo = not os.path.exists(RUTA_CSV)
CompruebaExiste ==
    /\ pc = "csv_existe"
    /\ nuevo' = ~existe
    /\ pc' = "csv_abre"
    /\ UNCHANGED <<existe, disco, f_csv, buf, nvml, exc, salida, causa, donde,
                   tick_vars, hist_vars>>

\* lines 34-35: open(RUTA_CSV, "a") creates the file when it is missing and
\* keeps its rows when it exists
AbreCsvOk ==
    /\ pc = "csv_abre"
    /\ existe' = TRUE
    /\ f_csv' = "abierto"
    /\ buf' = <<>>
    /\ pc' = "csv_cabecera"
    /\ UNCHANGED <<disco, nuevo, nvml, exc, salida, causa, donde, tick_vars,
                   hist_vars>>

AbreCsvFalla ==
    /\ pc = "csv_abre"
    /\ FallaInicio("csv_abre")
    /\ UNCHANGED <<existe, nuevo, f_csv, nvml, tick_vars, hist_vars>>

\* lines 36-37: the header goes to the file object's buffer, if nuevo
EscribeCabecera ==
    /\ pc = "csv_cabecera"
    /\ buf' = IF nuevo THEN Append(buf, Cabecera) ELSE buf
    /\ pc' = "csv_flush"
    /\ UNCHANGED <<existe, disco, nuevo, f_csv, nvml, exc, salida, causa, donde,
                   tick_vars, hist_vars>>

\* line 38: f_csv.flush()
FlushInicialOk ==
    /\ pc = "csv_flush"
    /\ disco' = disco \o buf
    /\ buf' = <<>>
    /\ pc' = "nvml_init"
    /\ UNCHANGED <<existe, nuevo, f_csv, nvml, exc, salida, causa, donde,
                   tick_vars, hist_vars>>

FlushInicialFalla ==
    /\ pc = "csv_flush"
    /\ FallaInicio("csv_flush")
    /\ UNCHANGED <<existe, nuevo, f_csv, nvml, tick_vars, hist_vars>>

\* line 41: nvmlInit()
NvmlInitOk ==
    /\ pc = "nvml_init"
    /\ nvml' = "activo"
    /\ pc' = "handle"
    /\ UNCHANGED <<existe, disco, nuevo, f_csv, buf, exc, salida, causa, donde,
                   tick_vars, hist_vars>>

NvmlInitFalla ==
    /\ pc = "nvml_init"
    /\ FallaInicio("nvml_init")
    /\ UNCHANGED <<existe, nuevo, f_csv, nvml, tick_vars, hist_vars>>

\* line 42: handle = nvmlDeviceGetHandleByIndex(GPU_INDEX)
ObtenHandleOk ==
    /\ pc = "handle"
    /\ pc' = "nombre"
    /\ UNCHANGED <<existe, disco, nuevo, f_csv, buf, nvml, exc, salida, causa,
                   donde, tick_vars, hist_vars>>

\* a variant of ObtenHandleFalla: the error is swallowed and the set-up goes on
ObtenHandleFalla_ignorada ==
    /\ pc = "handle"
    /\ causa' = "error"
    /\ donde' = "handle"
    /\ pc' = "nombre"
    /\ UNCHANGED <<existe, disco, nuevo, f_csv, buf, nvml, exc, salida, tick_vars,
                   hist_vars>>

ObtenHandleFalla ==
    /\ pc = "handle"
    /\ FallaInicio("handle")
    /\ UNCHANGED <<existe, nuevo, f_csv, nvml, tick_vars, hist_vars>>

\* line 43: gpu_name = nvmlDeviceGetName(handle).decode("utf-8")
NombreGpuOk ==
    /\ pc = "nombre"
    /\ pc' = "buffers"
    /\ UNCHANGED <<existe, disco, nuevo, f_csv, buf, nvml, exc, salida, causa,
                   donde, tick_vars, hist_vars>>

NombreGpuFalla ==
    /\ pc = "nombre"
    /\ FallaInicio("nombre")
    /\ UNCHANGED <<existe, nuevo, f_csv, nvml, tick_vars, hist_vars>>

\* lines 46-48: the three deques, empty
CreaBuffers ==
    /\ pc = "buffers"
    /\ t_muestras' = <<>>
    /\ proc_vals' = <<>>
    /\ mem_vals' = <<>>
    /\ pc' = "grafico"
    /\ UNCHANGED <<existe, disco, nuevo, f_csv, buf, nvml, exc, salida, causa,
                   donde, ahora, carga_proc, carga_mem, x, width, colores_proc,
                   colores_mem, dibujo, hist_vars>>

\* lines 64-80: the figure and its two axes; then the try block is entered
PreparaGraficoOk ==
    /\ pc = "grafico"
    /\ pc' = "reloj"
    /\ UNCHANGED <<existe, disco, nuevo, f_csv, buf, nvml, exc, salida, causa,
                   donde, tick_vars, hist_vars>>

PreparaGraficoFalla ==
    /\ pc = "grafico"
    /\ FallaInicio("grafico")
    /\ UNCHANGED <<existe, nuevo, f_csv, nvml, tick_vars, hist_vars>>

\* ========= Buffers: recorta_antiguas, lines 50-56 =========
\* a variant of FueraDeVentana: the comparison the wrong way round
FueraDeVentana_invertida(t, corte) == t > corte

\* a variant of FueraDeVentana: the sample at the cut is outside too
FueraDeVentana_inclusive(t, corte) == t <= corte

\* a variant of FueraDeVentana: everything up to the present is outside
FueraDeVentana_hasta_ahora(t, corte) == t <= corte + Ventana

\* a sample with timestamp t is outside the window that ends at corte + Ventana
FueraDeVentana(t, corte) == t < corte

\* a variant of recorta_antiguas: only t_muestras is popped
RECURSIVE recorta_antiguas_solo_t(_, _)
recorta_antiguas_solo_t(b, ahora_epoch) ==
    LET corte == ahora_epoch - Ventana
    IN  IF b.t # <<>> /\ FueraDeVentana(Head(b.t), corte)
        THEN recorta_antiguas_solo_t([t |-> Tail(b.t), p |-> b.p, m |-> b.m],
                                     ahora_epoch)
        ELSE b

\* the three deques b = [t, p, m] after recorta_antiguas(ahora_epoch): while
\* the head of t_muestras is older than the cut, pop the head of all three
RECURSIVE recorta_antiguas(_, _)
recorta_antiguas(b, ahora_epoch) ==
    LET corte == ahora_epoch - Ventana
    IN  IF b.t # <<>> /\ FueraDeVentana(Head(b.t), corte)
        THEN recorta_antiguas([t |-> Tail(b.t), p |-> Tail(b.p), m |-> Tail(b.m)],
                              ahora_epoch)
        ELSE b

\* ========= color_por_porcentaje, lines 58-61 =========
Min2(a, b) == IF a <= b THEN a ELSE b
Max2(a, b) == IF a >= b THEN a ELSE b
\* a variant of color_por_porcentaje: red and green the other way round
color_por_porcentaje_invertido(pct) ==
    LET t == Max2(0, Min2(10000, pct))
    IN  <<10000 - t, t, 0>>

\* a variant of color_por_porcentaje: no saturation at the ends
color_por_porcentaje_sin_tope(pct) == <<pct, 10000 - pct, 0>>

\* pct in hundredths of a percent; t = max(0.0, min(1.0, pct / 100.0)) in 1/10000
color_por_porcentaje(pct) ==
    LET t == Max2(0, Min2(10000, pct))
    IN  <<t, 10000 - t, 0>>

\* ========= render geometry, lines 107-121 =========
\* a variant of PosicionesX: positions counted from the oldest sample kept
\* instead of from the left edge of the window
PosicionesX_desde_primera(ts, now) ==
    IF ts # <<>>
    THEN [i \in 1..Len(ts) |-> ts[i] - ts[1]]
    ELSE <<>>

\* line 109: x = [t - (ahora - VENTANA_SEGUNDOS) for t in t_muestras]
PosicionesX(ts, now) ==
    IF ts # <<>>
    THEN [i \in 1..Len(ts) |-> ts[i] - (now - Ventana)]
    ELSE <<>>

\* line 115: sum(x[i+1] - x[i] for i in range(len(x)-1)), the first k terms
RECURSIVE SumaDeltas(_, _)
SumaDeltas(xs, k) ==
    IF k = 0 THEN 0 ELSE SumaDeltas(xs, k - 1) + (xs[k + 1] - xs[k])

\* a variant of AnchoBarras: no bar width at all with fewer than two bars
AnchoBarras_sin_defecto(xs) ==
    IF Len(xs) >= 2
    THEN [num |-> SumaDeltas(xs, Len(xs) - 1), den |-> Len(xs) - 1]
    ELSE [num |-> 0, den |-> 1]

\* a variant of AnchoBarras: the sum of the distances divided by the number
\* of bars instead of the number of distances
AnchoBarras_entre_n(xs) ==
    IF Len(xs) >= 2
    THEN [num |-> SumaDeltas(xs, Len(xs) - 1), den |-> Len(xs)]
    ELSE AnchoPorDefecto

\* lines 114-118: the mean distance between consecutive bars, or the default
AnchoBarras(xs) ==
    IF Len(xs) >= 2
    THEN [num |-> SumaDeltas(xs, Len(xs) - 1), den |-> Len(xs) - 1]
    ELSE AnchoPorDefecto

\* lines 120-121
Colores(vals) == [i \in 1..Len(vals) |-> color_por_porcentaje(vals[i])]

\* ========= one tick, lines 84-144 (inside the try block) =========
\* line 84: ahora = time.time(), with the reading t
LeeRelojEn(t) ==
    /\ pc = "reloj"
    /\ ahora' = t
    /\ ticks' = ticks + 1
    /\ pc' = "util"
    /\ UNCHANGED <<existe, disco, nuevo, f_csv, buf, nvml, exc, salida, causa,
                   donde, t_muestras, proc_vals, mem_vals, carga_proc, carga_mem,
                   x, width, colores_proc, colores_mem, dibujo, corridas,
                   ticks_ini, disco_ini, paso>>

LeeReloj ==
    /\ ticks < MaxTicks
    /\ \E t \in Relojes : LeeRelojEn(t)

\* lines 87-88: carga_proc = float(util.gpu), a reading out of S
LeeUtilizacionDe(S) ==
    /\ pc = "util"
    /\ \E u \in S : carga_proc' = u * 100
    /\ pc' = "meminfo"
    /\ UNCHANGED <<existe, disco, nuevo, f_csv, buf, nvml, exc, salida, causa,
                   donde, t_muestras, proc_vals, mem_vals, ahora, carga_mem,
                   x, width, colores_proc, colores_mem, dibujo, hist_vars>>

LeeUtilizacionOk == LeeUtilizacionDe(UtilLecturas)

\* a variant of LeeUtilizacionFalla: the error is caught, the tick is skipped
\* and the loop goes on
LeeUtilizacionFalla_salta ==
    /\ pc = "util"
    /\ causa' = "error"
    /\ donde' = "util"
    /\ pc' = "pausa"
    /\ UNCHANGED <<existe, disco, nuevo, f_csv, buf, nvml, exc, salida, tick_vars,
                   hist_vars>>

\* nvmlDeviceGetUtilizationRates raises NVMLError: nothing catches it
LeeUtilizacionFalla ==
    /\ pc = "util"
    /\ FallaBucle("util")
    /\ UNCHANGED <<existe, disco, nuevo, f_csv, buf, nvml, salida, tick_vars,
                   hist_vars>>

\* lines 89-90: carga_mem = (mem.used / mem.total) * 100.0, a reading out of S
LeeMemoriaDe(S) ==
    /\ pc = "meminfo"
    /\ \E m \in S : carga_mem' = (m[1] * 10000) \div m[2]
    /\ pc' = "escribe"
    /\ UNCHANGED <<existe, disco, nuevo, f_csv, buf, nvml, exc, salida, causa,
                   donde, t_muestras, proc_vals, mem_vals, ahora, carga_proc,
                   x, width, colores_proc, colores_mem, dibujo, hist_vars>>

LeeMemoriaOk == LeeMemoriaDe(MemLecturas)

LeeMemoriaFalla ==
    /\ pc = "meminfo"
    /\ FallaBucle("meminfo")
    /\ UNCHANGED <<existe, disco, nuevo, f_csv, buf, nvml, salida, tick_vars,
                   hist_vars>>

\* lines 93-98: w_csv.writerow([...]) puts the row in the file object's buffer
EscribeFilaOk ==
    /\ pc = "escribe"
    /\ buf' = Append(buf, FilaMuestra(ahora, carga_proc, carga_mem))
    /\ pc' = "flush"
    /\ UNCHANGED <<existe, disco, nuevo, f_csv, nvml, exc, salida, causa, donde,
                   tick_vars, hist_vars>>

EscribeFilaFalla ==
    /\ pc = "escribe"
    /\ FallaBucle("escribe")
    /\ UNCHANGED <<existe, disco, nuevo, f_csv, buf, nvml, salida, tick_vars,
                   hist_vars>>

\* line 99: f_csv.flush()
FlushFilaOk ==
    /\ pc = "flush"
    /\ disco' = disco \o buf
    /\ buf' = <<>>
    /\ pc' = "anade_t"
    /\ UNCHANGED <<existe, nuevo, f_csv, nvml, exc, salida, causa, donde,
                   tick_vars, hist_vars>>

\* a variant of FlushFilaFalla: the OSError is swallowed and the tick goes on
FlushFilaFalla_ignorada ==
    /\ pc = "flush"
    /\ causa' = "error"
    /\ donde' = "flush"
    /\ pc' = "anade_t"
    /\ UNCHANGED <<existe, disco, nuevo, f_csv, buf, nvml, exc, salida, tick_vars,
                   hist_vars>>

\* the flush raises OSError; the row stays in the buffer
FlushFilaFalla ==
    /\ pc = "flush"
    /\ FallaBucle("flush")
    /\ UNCHANGED <<existe, disco, nuevo, f_csv, buf, nvml, salida, tick_vars,
                   hist_vars>>

\* line 102: t_muestras.append(ahora)
AnadeT ==
    /\ pc = "anade_t"
    /\ t_muestras' = Append(t_muestras, ahora)
    /\ pc' = "anade_proc"
    /\ UNCHANGED <<existe, disco, nuevo, f_csv, buf, nvml, exc, salida, causa,
                   donde, proc_vals, mem_vals, ahora, carga_proc, carga_mem,
                   x, width, colores_proc, colores_mem, dibujo, hist_vars>>

\* line 103: proc_vals.append(carga_proc)
AnadeProc ==
    /\ pc = "anade_proc"
    /\ proc_vals' = Append(proc_vals, carga_proc)
    /\ pc' = "anade_mem"
    /\ UNCHANGED <<existe, disco, nuevo, f_csv, buf, nvml, exc, salida, causa,
                   donde, t_muestras, mem_vals, ahora, carga_proc, carga_mem,
                   x, width, colores_proc, colores_mem, dibujo, hist_vars>>

\* line 104: mem_vals.append(carga_mem)
AnadeMem ==
    /\ pc = "anade_mem"
    /\ mem_vals' = Append(mem_vals, carga_mem)
    /\ pc' = "recorta"
    /\ UNCHANGED <<existe, disco, nuevo, f_csv, buf, nvml, exc, salida, causa,
                   donde, t_muestras, proc_vals, ahora, carga_proc, carga_mem,
                   x, width, colores_proc, colores_mem, dibujo, hist_vars>>

\* line 105: recorta_antiguas(ahora)
Recorta ==
    /\ pc = "recorta"
    /\ LET r == recorta_antiguas([t |-> t_muestras, p |-> proc_vals, m |-> mem_vals],
                                 ahora)
       IN  /\ t_muestras' = r.t
           /\ proc_vals' = r.p
           /\ mem_vals' = r.m
    /\ pc' = "geometria"
    /\ UNCHANGED <<existe, disco, nuevo, f_csv, buf, nvml, exc, salida, causa,
                   donde, ahora, carga_proc, carga_mem, x, width, colores_proc,
                   colores_mem, dibujo, hist_vars>>

\* lines 108-118: x and width
CalculaGeometria ==
    /\ pc = "geometria"
    /\ x' = PosicionesX(t_muestras, ahora)
    /\ width' = AnchoBarras(x')
    /\ pc' = "colores"
    /\ UNCHANGED <<existe, disco, nuevo, f_csv, buf, nvml, exc, salida, causa,
                   donde, t_muestras, proc_vals, mem_vals, ahora, carga_proc,
                   carga_mem, colores_proc, colores_mem, dibujo, hist_vars>>

\* lines 120-121: colores_proc and colores_mem
CalculaColores ==
    /\ pc = "colores"
    /\ colores_proc' = Colores(proc_vals)
    /\ colores_mem' = Colores(mem_vals)
    /\ pc' = "dibuja"
    /\ UNCHANGED <<existe, disco, nuevo, f_csv, buf, nvml, exc, salida, causa,
                   donde, t_muestras, proc_vals, mem_vals, ahora, carga_proc,
                   carga_mem, x, width, dibujo, hist_vars>>

\* lines 124-143: both axes are cleared and drawn again
DibujaOk ==
    /\ pc = "dibuja"
    /\ dibujo' = [x |-> x, proc |-> proc_vals, mem |-> mem_vals, width |-> width,
                  colores_proc |-> colores_proc, colores_mem |-> colores_mem]
    /\ pc' = "pausa"
    /\ UNCHANGED <<existe, disco, nuevo, f_csv, buf, nvml, exc, salida, causa,
                   donde, t_muestras, proc_vals, mem_vals, ahora, carga_proc,
                   carga_mem, x, width, colores_proc, colores_mem, hist_vars>>

\* matplotlib raises (the window is gone, the backend fails)
DibujaFalla ==
    /\ pc = "dibuja"
    /\ FallaBucle("dibuja")
    /\ UNCHANGED <<existe, disco, nuevo, f_csv, buf, nvml, salida, tick_vars,
                   hist_vars>>

\* line 144: plt.pause(INTERVALO_MUESTREO), then the next iteration
Pausa ==
    /\ pc = "pausa"
    /\ pc' = "reloj"
    /\ UNCHANGED <<existe, disco, nuevo, f_csv, buf, nvml, exc, salida, causa,
                   donde, tick_vars, hist_vars>>

\* The process has ended after having entered the try block: its deques, its
\* locals and its figure no longer exist.
FinDeProceso ==
    /\ t_muestras' = <<>> /\ proc_vals' = <<>> /\ mem_vals' = <<>>
    /\ ahora' = 0 /\ carga_proc' = 0 /\ carga_mem' = 0
    /\ x' = <<>> /\ width' = AnchoPorDefecto
    /\ colores_proc' = <<>> /\ colores_mem' = <<>>
    /\ dibujo' = SinDibujo

\* ========= the user interrupts (SIGINT) =========
\* Python raises KeyboardInterrupt in the main thread at the statement being
\* executed, whichever it is.  The history keeps the first thing that went wrong.
AnotaInterrupcion ==
    /\ causa' = IF causa = "ninguna" THEN "interrupcion" ELSE causa
    /\ donde' = IF causa = "ninguna" THEN pc ELSE donde
    /\ exc' = "KeyboardInterrupt"

\* before the try block nothing catches it
InterrumpeInicio ==
    /\ pc \in PcsInicio
    /\ AnotaInterrupcion
    /\ SaleSinFinally(130)
    /\ UNCHANGED <<existe, nuevo, f_csv, nvml, tick_vars, hist_vars>>

\* inside the try block the except clause of line 146 catches it
InterrumpeBucle ==
    /\ pc \in PcsBucle
    /\ AnotaInterrupcion
    /\ pc' = "except"
    /\ UNCHANGED <<existe, disco, nuevo, f_csv, buf, nvml, salida, tick_vars,
                   hist_vars>>

\* inside the except clause: the finally block runs, then it propagates
InterrumpeExcept ==
    /\ pc = "except"
    /\ AnotaInterrupcion
    /\ pc' = "finally_close"
    /\ UNCHANGED <<existe, disco, nuevo, f_csv, buf, nvml, salida, tick_vars,
                   hist_vars>>

\* inside the finally block: the rest of the block is skipped
InterrumpeFinally ==
    /\ pc \in {"finally_close", "finally_shutdown"}
    /\ AnotaInterrupcion
    /\ SaleSinFinally(130)
    /\ FinDeProceso
    /\ UNCHANGED <<existe, nuevo, f_csv, nvml, hist_vars>>

\* ========= except / finally, lines 146-150 =========
\* line 147: print("Detenido por el usuario.")
Except ==
    /\ pc = "except"
    /\ exc' = "ninguna"
    /\ pc' = "finally_close"
    /\ UNCHANGED <<existe, disco, nuevo, f_csv, buf, nvml, salida, causa, donde,
                   tick_vars, hist_vars>>

\* line 149: f_csv.close() flushes what the buffer holds and closes the file
FinallyCloseOk ==
    /\ pc = "finally_close"
    /\ disco' = disco \o buf
    /\ buf' = <<>>
    /\ f_csv' = "cerrado"
    /\ pc' = "finally_shutdown"
    /\ UNCHANGED <<existe, nuevo, nvml, exc, salida, causa, donde, tick_vars,
                   hist_vars>>

\* the flush inside close() raises OSError: the file is closed, the buffered
\* rows are lost, and line 150 is not reached
FinallyCloseFalla ==
    /\ pc = "finally_close"
    /\ buf # <<>>
    /\ buf' = <<>>
    /\ f_csv' = "cerrado"
    /\ exc' = "Error"
    /\ causa' = IF causa = "ninguna" THEN "error" ELSE causa
    /\ donde' = IF causa = "ninguna" THEN pc ELSE donde
    /\ pc' = "fin"
    /\ salida' = 1
    /\ FinDeProceso
    /\ UNCHANGED <<existe, disco, nuevo, nvml, hist_vars>>

\* the status of a process that leaves the finally block with exception e
EstadoDeSalida(e) ==
    IF e = "ninguna" THEN 0 ELSE IF e = "KeyboardInterrupt" THEN 130 ELSE 1

\* line 150: nvmlShutdown(); then the pending exception, if any, ends the process
FinallyShutdownOk ==
    /\ pc = "finally_shutdown"
    /\ nvml' = "apagado"
    /\ pc' = "fin"
    /\ salida' = EstadoDeSalida(exc)
    /\ FinDeProceso
    /\ UNCHANGED <<existe, disco, nuevo, f_csv, buf, exc, causa, donde, hist_vars>>

\* nvmlShutdown() raises NVMLError
FinallyShutdownFalla ==
    /\ pc = "finally_shutdown"
    /\ exc' = "Error"
    /\ causa' = IF causa = "ninguna" THEN "error" ELSE causa
    /\ donde' = IF causa = "ninguna" THEN pc ELSE donde
    /\ pc' = "fin"
    /\ salida' = 1
    /\ FinDeProceso
    /\ UNCHANGED <<existe, disco, nuevo, f_csv, buf, nvml, hist_vars>>

\* ========= the environment =========
\* SIGKILL at any statement: nothing runs any more, the buffered rows are lost
Mata ==
    /\ pc # "fin"
    /\ causa' = "kill"
    /\ donde' = pc
    /\ pc' = "fin"
    /\ salida' = 137
    /\ buf' = <<>>
    /\ FinDeProceso
    /\ UNCHANGED <<existe, disco, nuevo, f_csv, nvml, exc, hist_vars>>

\* the operator starts the script again, on the same RUTA_CSV
Reinicia ==
    /\ pc = "fin"
    /\ corridas < MaxCorridas
    /\ pc' = "import"
    /\ nuevo' = FALSE
    /\ f_csv' = "ninguno"
    /\ buf' = <<>>
    /\ nvml' = "no_iniciado"
    /\ t_muestras' = <<>> /\ proc_vals' = <<>> /\ mem_vals' = <<>>
    /\ ahora' = 0 /\ carga_proc' = 0 /\ carga_mem' = 0
    /\ x' = <<>> /\ width' = AnchoPorDefecto
    /\ colores_proc' = <<>> /\ colores_mem' = <<>>
    /\ dibujo' = SinDibujo
    /\ exc' = "ninguna"
    /\ salida' = -1
    /\ causa' = "ninguna"
    /\ donde' = "ninguno"
    /\ corridas' = corridas + 1
    /\ ticks_ini' = ticks
    /\ disco_ini' = disco
    /\ UNCHANGED <<existe, disco, ticks, paso>>

\* ========= the specification =========
Next ==
    \/ ImportarOk \/ ImportarFalla
    \/ CompruebaExiste
    \/ AbreCsvOk \/ AbreCsvFalla
    \/ EscribeCabecera
    \/ FlushInicialOk \/ FlushInicialFalla
    \/ NvmlInitOk \/ NvmlInitFalla
    \/ ObtenHandleOk \/ ObtenHandleFalla
    \/ NombreGpuOk \/ NombreGpuFalla
    \/ CreaBuffers
    \/ PreparaGraficoOk \/ PreparaGraficoFalla
    \/ LeeReloj
    \/ LeeUtilizacionOk \/ LeeUtilizacionFalla
    \/ LeeMemoriaOk \/ LeeMemoriaFalla
    \/ EscribeFilaOk \/ EscribeFilaFalla
    \/ FlushFilaOk \/ FlushFilaFalla
    \/ AnadeT \/ AnadeProc \/ AnadeMem
    \/ Recorta
    \/ CalculaGeometria
    \/ CalculaColores
    \/ DibujaOk \/ DibujaFalla
    \/ Pausa
    \/ InterrumpeInicio \/ InterrumpeBucle \/ InterrumpeExcept \/ InterrumpeFinally
    \/ Except
    \/ FinallyCloseOk \/ FinallyCloseFalla
    \/ FinallyShutdownOk \/ FinallyShutdownFalla
    \/ Mata
    \/ Reinicia

Spec == Init /\ [][Next]_vars

\* ========= the scenario of 60 samples, one per second =========
\* One run in which nothing fails and nobody interrupts; the k-th clock
\* reading is k - 1 seconds, and there are VENTANA_SEGUNDOS readings.
LeeRelojEscenario ==
    /\ ticks < VENTANA_SEGUNDOS
    /\ LeeRelojEn(ticks * 1000)

NextEscenario ==
    \/ ImportarOk
    \/ CompruebaExiste
    \/ AbreCsvOk
    \/ EscribeCabecera
    \/ FlushInicialOk
    \/ NvmlInitOk
    \/ ObtenHandleOk
    \/ NombreGpuOk
    \/ CreaBuffers
    \/ PreparaGraficoOk
    \/ LeeRelojEscenario
    \/ LeeUtilizacionOk
    \/ LeeMemoriaOk
    \/ EscribeFilaOk
    \/ FlushFilaOk
    \/ AnadeT \/ AnadeProc \/ AnadeMem
    \/ Recorta
    \/ CalculaGeometria
    \/ CalculaColores
    \/ DibujaOk
    \/ Pausa

SpecEscenario == Init /\ [][NextEscenario]_vars

\* ========= one run seen through its window =========
\* One run in which nothing fails and nobody interrupts, with more readings to
\* choose from: the clock may stand still, advance by 30 s, 35 s, 60 s or 95 s
\* or be set back, and the two loads vary independently.
RelojesVentana == {0, 30000, 60000, 90000}
UtilLecturasVentana == {25, 100}
MemLecturasVentana == {<<1, 4>>, <<3, 4>>}

LeeRelojVentana ==
    /\ ticks < MaxTicks
    /\ \E t \in RelojesVentana : LeeRelojEn(t)

LeeUtilizacionVentana == LeeUtilizacionDe(UtilLecturasVentana)

LeeMemoriaVentana == LeeMemoriaDe(MemLecturasVentana)

NextVentana ==
    \/ ImportarOk
    \/ CompruebaExiste
    \/ AbreCsvOk
    \/ EscribeCabecera
    \/ FlushInicialOk
    \/ NvmlInitOk
    \/ ObtenHandleOk
    \/ NombreGpuOk
    \/ CreaBuffers
    \/ PreparaGraficoOk
    \/ LeeRelojVentana
    \/ LeeUtilizacionVentana
    \/ LeeMemoriaVentana
    \/ EscribeFilaOk
    \/ FlushFilaOk
    \/ AnadeT \/ AnadeProc \/ AnadeMem
    \/ Recorta
    \/ CalculaGeometria
    \/ CalculaColores
    \/ DibujaOk
    \/ Pausa

SpecVentana == Init /\ [][NextVentana]_vars

\* ========= one run sampled at a regular pace =========
\* One run in which nothing fails and nobody interrupts; the first clock
\* reading is one of Inicios and every later one is paso after the one
\* before.  The run lasts until the readings span more than the window.
Pasos == {2000, 20000, 30000, 45000, 60000, 70000}
Inicios == {0, 1500}

InitRegular ==
    /\ Arranque
    /\ existe = FALSE
    /\ disco = <<>>
    /\ corridas = 1
    /\ ticks = 0
    /\ ticks_ini = 0
    /\ disco_ini = <<>>
    /\ paso \in Pasos

LeeRelojRegular ==
    /\ ticks * paso <= Ventana + paso
    /\ \E t \in (IF ticks = 0 THEN Inicios ELSE {ahora + paso}) : LeeRelojEn(t)

NextRegular ==
    \/ ImportarOk
    \/ CompruebaExiste
    \/ AbreCsvOk
    \/ EscribeCabecera
    \/ FlushInicialOk
    \/ NvmlInitOk
    \/ ObtenHandleOk
    \/ NombreGpuOk
    \/ CreaBuffers
    \/ PreparaGraficoOk
    \/ LeeRelojRegular
    \/ LeeUtilizacionOk
    \/ LeeMemoriaOk
    \/ EscribeFilaOk
    \/ FlushFilaOk
    \/ AnadeT \/ AnadeProc \/ AnadeMem
    \/ Recorta
    \/ CalculaGeometria
    \/ CalculaColores
    \/ DibujaOk
    \/ Pausa

SpecRegular == InitRegular /\ [][NextRegular]_vars

\* ========= the colours of one render =========
\* The first tick of the first run has reached line 120 with the loads a and
\* b, which range over Porcentajes (hundredths of a percent; values below 0 and
\* above 100 % included, to exercise the saturation of color_por_porcentaje).
Porcentajes == {-1000, -1, 0, 1, 2500, 5000, 9999, 10000, 10001, 15000}

InitColor ==
    \E a \in Porcentajes, b \in Porcentajes :
        /\ pc = "colores"
        /\ existe = TRUE
        /\ disco = <<Cabecera, FilaMuestra(0, a, b)>>
        /\ nuevo = TRUE
        /\ f_csv = "abierto"
        /\ buf = <<>>
        /\ nvml = "activo"
        /\ t_muestras = <<0>> /\ proc_vals = <<a>> /\ mem_vals = <<b>>
        /\ ahora = 0 /\ carga_proc = a /\ carga_mem = b
        /\ x = PosicionesX(<<0>>, 0) /\ width = AnchoPorDefecto
        /\ colores_proc = <<>> /\ colores_mem = <<>>
        /\ dibujo = SinDibujo
        /\ exc = "ninguna"
        /\ salida = -1
        /\ causa = "ninguna"
        /\ donde = "ninguno"
        /\ corridas = 1
        /\ ticks = 1
        /\ ticks_ini = 0
        /\ disco_ini = <<>>
        /\ paso = 0

NextColor ==
    \/ CalculaColores
    \/ DibujaOk

SpecColor == InitColor /\ [][NextColor]_vars

\* ========= properties =========
\* the sample rows among rows
NumMuestras(rows) == Cardinality({i \in DOMAIN rows : ~rows[i].cab})
\* the ticks this run has started
TicksDeLaCorrida == ticks - ticks_ini
\* the deques are as the last completed tick drew them
ComoSeDibujo ==
    /\ dibujo.proc = proc_vals
    /\ dibujo.mem = mem_vals
    /\ Len(t_muestras) = Len(dibujo.x)

\* C1 (window invariant): right after recorta_antiguas(ahora) has returned,
\* every timestamp left in t_muestras is >= ahora - VENTANA_SEGUNDOS.
C1_VentanaTrasRecorte ==
    pc = "geometria" =>
        \A i \in DOMAIN t_muestras : t_muestras[i] >= ahora - Ventana

\* C2 (persist before insert): every sample in the deques has its row in the
\* file; at the statements that follow the insertion of a sample the buffer
\* of the file object is empty and the last row of the file is that sample's;
\* after a failed writerow or flush the deques are as the last tick left them.
C2_PersisteAntesDeInsertar ==
    /\ \A i \in DOMAIN t_muestras :
          \E j \in DOMAIN disco :
              /\ ~disco[j].cab
              /\ disco[j].campos[1] = FormatoEpoch(t_muestras[i])
              /\ i \in DOMAIN proc_vals => disco[j].campos[3] = FormatoPct(proc_vals[i])
              /\ i \in DOMAIN mem_vals => disco[j].campos[4] = FormatoPct(mem_vals[i])
    /\ pc \in {"anade_proc", "anade_mem", "recorta"} =>
          /\ buf = <<>>
          /\ disco # <<>>
          /\ disco[Len(disco)] = FilaMuestra(ahora, carga_proc, carga_mem)
          /\ t_muestras[Len(t_muestras)] = ahora
    /\ (causa = "error" /\ donde \in {"escribe", "flush"} /\ pc # "fin") =>
          /\ pc \in {"finally_close", "finally_shutdown"}
          /\ ComoSeDibujo

\* a tick of the run has inserted its sample and a later one has inserted a
\* second one, both after their rows reached the file
C2_Testigo ==
    /\ pc = "anade_proc"
    /\ Len(t_muestras) = 2
    /\ Len(disco) = 3

\* C3 (cancellation between ticks only): when the except clause is entered,
\* the interrupt was taken at plt.pause or before the first statement of a
\* tick, and the last tick started is complete: its row is flushed, its
\* sample is in the three deques and it has been drawn.
C3_CancelacionEntreTicks ==
    pc = "except" =>
        /\ donde \in {"pausa", "reloj"}
        /\ buf = <<>>
        /\ NumMuestras(disco) - NumMuestras(disco_ini) = TicksDeLaCorrida
        /\ Len(t_muestras) = Len(proc_vals)
        /\ Len(proc_vals) = Len(mem_vals)
        /\ ComoSeDibujo

\* C4 (guaranteed release): whenever the process has ended by an error or by
\* an interrupt after it opened the CSV file or initialised NVML, the file
\* has been closed and NVML is not left initialised.
C4_LiberacionGarantizada ==
    (/\ pc = "fin"
     /\ causa \in {"error", "interrupcion"}
     /\ (f_csv # "ninguno" \/ nvml # "no_iniciado")) =>
        /\ f_csv = "cerrado"
        /\ nvml # "activo"

\* C5 (a query failure is fatal and not retried): once a GPU read of a tick
\* has failed, the process is in its finally block or has ended, with a
\* non-zero status when it has ended; the file holds the rows of the earlier
\* ticks of the run and none for the failed tick, nothing waits in the
\* buffer of the file object, and the deques are as the last completed tick
\* left them.
C5_FalloDeConsultaFatal ==
    (causa = "error" /\ donde \in {"util", "meminfo"}) =>
        /\ pc \in {"finally_close", "finally_shutdown", "fin"}
        /\ buf = <<>>
        /\ NumMuestras(disco) - NumMuestras(disco_ini) = TicksDeLaCorrida - 1
        /\ pc # "fin" => ComoSeDibujo
        /\ pc = "fin" => salida \notin {-1, 0}

\* the memory read of the second tick of a run failed and the process ended
C5_Testigo ==
    /\ causa = "error"
    /\ donde = "meminfo"
    /\ pc = "fin"
    /\ TicksDeLaCorrida = 2

\* C6 (clean cancellation): whenever the process has ended after an interrupt
\* taken inside the loop, its status is 0, the file is closed and NVML is
\* shut down.
C6_CancelacionLimpia ==
    (pc = "fin" /\ causa = "interrupcion" /\ donde \in PcsBucle) =>
        /\ salida = 0
        /\ f_csv = "cerrado"
        /\ nvml = "apagado"

\* C7 (header exactly once): whenever the file holds N >= 1 sample rows, it
\* holds N + 1 rows, the first is the header and no other row is.
C7_CabeceraUnaVez ==
    (existe /\ NumMuestras(disco) >= 1) =>
        /\ Len(disco) = NumMuestras(disco) + 1
        /\ disco[1].cab
        /\ disco[1] = Cabecera
        /\ \A i \in 2..Len(disco) : ~disco[i].cab

\* C8 (initialisation failure is fatal): once the import of pynvml, nvmlInit
\* or nvmlDeviceGetHandleByIndex has failed, the process has ended with a
\* non-zero status, the run has taken no clock reading, the deques are empty
\* and the file holds no sample row that it did not hold when the run began.
C8_FalloDeInicioFatal ==
    (causa = "error" /\ donde \in {"import", "nvml_init", "handle"}) =>
        /\ pc = "fin"
        /\ salida \notin {-1, 0}
        /\ TicksDeLaCorrida = 0
        /\ t_muestras = <<>> /\ proc_vals = <<>> /\ mem_vals = <<>>
        /\ NumMuestras(disco) = NumMuestras(disco_ini)
        /\ buf = <<>>

\* nvmlDeviceGetHandleByIndex failed in a run that found the file of an
\* earlier run, with a sample row in it
C8_Testigo ==
    /\ causa = "error"
    /\ donde = "handle"
    /\ pc = "fin"
    /\ NumMuestras(disco) >= 1

\* C9 (timestamp ordering): the timestamps of t_muestras are non-decreasing
\* from head to tail.
C9_OrdenDeTiempos ==
    \A i, j \in DOMAIN t_muestras : i < j => t_muestras[i] <= t_muestras[j]

\* C10 as stated (scenario): samples at t = 0, 1, ..., 59 s; after the
\* eviction and the geometry of now = 59 s, 60 samples are retained, the
\* x-positions are 0..59 s and the width is 1.0 s.
C10_EscenarioOriginal ==
    (pc = "colores" /\ ticks = VENTANA_SEGUNDOS) =>
        /\ Len(t_muestras) = VENTANA_SEGUNDOS
        /\ x = [i \in 1..VENTANA_SEGUNDOS |-> (i - 1) * 1000]
        /\ width.num = 1000 * width.den

\* C10 as amended (scenario): samples at t = 0, 1, ..., 59 s; after the
\* eviction and the geometry of now = 59 s, 60 samples are retained, the
\* x-positions are 1..60 s and the width is 1.0 s.
C10_Escenario ==
    (pc = "colores" /\ ticks = VENTANA_SEGUNDOS) =>
        /\ t_muestras = [i \in 1..VENTANA_SEGUNDOS |-> (i - 1) * 1000]
        /\ Len(t_muestras) = VENTANA_SEGUNDOS
        /\ x = [i \in 1..VENTANA_SEGUNDOS |-> i * 1000]
        /\ width.num = 1000 * width.den

\* the geometry of the 60th tick, taken at 59 s, has just been computed
C10_Testigo ==
    /\ pc = "colores"
    /\ ticks = VENTANA_SEGUNDOS
    /\ ahora = (VENTANA_SEGUNDOS - 1) * 1000
    /\ Len(x) = VENTANA_SEGUNDOS

\* the statements at which x and width are those of the deques
PcsConGeometria == {"colores", "dibuja", "pausa"}
\* consecutive elements of the sequence ts differ by exactly d
Regular(ts, d) == \A i \in 1..(Len(ts) - 1) : ts[i + 1] - ts[i] = d

\* C11 (no-gap geometry): with two or more samples in the deques, the width
\* is (x[n-1] - x[0]) / (n - 1), the mean of the consecutive distances; and
\* when consecutive timestamps differ by one same d, consecutive x-positions
\* differ by d and the width is d.
C11_SinHuecos ==
    (pc \in PcsConGeometria /\ Len(x) >= 2) =>
        /\ Len(x) = Len(t_muestras)
        /\ width.den > 0
        /\ width.num * (Len(x) - 1) = (x[Len(x)] - x[1]) * width.den
        /\ LET d == t_muestras[2] - t_muestras[1]
           IN  Regular(t_muestras, d) =>
                   /\ Regular(x, d)
                   /\ width.num = d * width.den

\* three samples 30 s apart are in the window and their geometry is computed
C11_Testigo ==
    /\ pc = "dibuja"
    /\ Len(x) = 3
    /\ Regular(t_muestras, 30000)

\* the distance between two integers
Dist(a, b) == IF a >= b THEN a - b ELSE b - a

\* C12 (bounded window population): under sampling at a regular pace d, the
\* deques never hold more than floor(W/d) + 1 samples; once N samples have
\* been inserted with N*d > W, the deques hold floor(W/d) samples give or take
\* one, and so do they after an eviction at now = t + N*d, one pace after the
\* last sample.
C12_PoblacionAcotada ==
    pc \in {"geometria", "colores", "dibuja", "pausa"} =>
        LET piso == Ventana \div paso
            r == recorta_antiguas([t |-> t_muestras, p |-> proc_vals, m |-> mem_vals],
                                  ahora + paso)
        IN  /\ Len(t_muestras) <= piso + 1
            /\ ticks * paso > Ventana =>
                   /\ Dist(Len(t_muestras), piso) <= 1
                   /\ Dist(Len(r.t), piso) <= 1

\* at a pace of 20 s the readings span more than the window and the deques
\* hold floor(60/20) + 1 samples
C12_Testigo ==
    /\ pc = "pausa"
    /\ paso = 20000
    /\ ticks * paso > Ventana
    /\ Len(t_muestras) = Ventana \div paso + 1

\* C13 (x-range): at every render each x-position is the sample's timestamp
\* minus (now - W), lies in the closed interval [0, W], and the positions are
\* non-decreasing, the newest sample having the largest.
C13_RangoDeX ==
    pc \in PcsConGeometria =>
        /\ Len(x) = Len(t_muestras)
        /\ \A i \in 1..Len(x) :
               /\ x[i] = t_muestras[i] - (ahora - Ventana)
               /\ 0 <= x[i]
               /\ x[i] <= Ventana
               /\ x[i] <= x[Len(x)]
        /\ \A i \in 1..(Len(x) - 1) : x[i] <= x[i + 1]

\* C14 (default-width fallback): whenever the buffer holds fewer than two
\* samples at render time the bar width is INTERVALO_MUESTREO; an empty buffer
\* yields an empty x sequence and a single sample exactly one x-position.
C14_AnchoPorDefecto ==
    /\ PosicionesX(<<>>, ahora) = <<>>
    /\ AnchoBarras(PosicionesX(<<>>, ahora)) = [num |-> INTERVALO_MUESTREO, den |-> 1]
    /\ (pc \in PcsConGeometria /\ Len(t_muestras) < 2) =>
           /\ width = [num |-> INTERVALO_MUESTREO, den |-> 1]
           /\ Len(x) = Len(t_muestras)
           /\ dibujo.width = width \/ pc = "colores" \/ pc = "dibuja"

\* a render with a single sample left after the eviction of an older one
C14_Testigo ==
    /\ pc = "pausa"
    /\ ticks >= 2
    /\ Len(t_muestras) = 1
    /\ Len(x) = 1
    /\ dibujo.width.num = INTERVALO_MUESTREO

\* the colours have been computed from the values in the deques
PcsConColores == {"dibuja", "pausa"}

\* C15 (colour monotonicity): color_por_porcentaje(0) = (0,1,0),
\* color_por_porcentaje(100) = (1,0,0), the blue component is always 0, and
\* for a < b in [0,100] red at a <= red at b and green at a >= green at b.
C15_ColorMonotono ==
    /\ color_por_porcentaje(0) = <<0, 10000, 0>>
    /\ color_por_porcentaje(10000) = <<10000, 0, 0>>
    /\ pc \in PcsConColores =>
           \A i \in 1..Len(proc_vals), j \in 1..Len(mem_vals) :
               LET a == proc_vals[i]
                   b == mem_vals[j]
                   ca == colores_proc[i]
                   cb == colores_mem[j]
               IN  /\ ca[3] = 0 /\ cb[3] = 0
                   /\ a = 0 => ca = <<0, 10000, 0>>
                   /\ b = 10000 => cb = <<10000, 0, 0>>
                   /\ (0 <= a /\ a < b /\ b <= 10000) =>
                          /\ ca[1] <= cb[1]
                          /\ ca[2] >= cb[2]

\* a render of 25 % and 50 %: the second bar is redder and less green
C15_Testigo ==
    /\ pc = "pausa"
    /\ proc_vals = <<2500>>
    /\ mem_vals = <<5000>>
    /\ dibujo.colores_proc[1][1] < dibujo.colores_mem[1][1]
    /\ dibujo.colores_proc[1][2] > dibujo.colores_mem[1][2]

\* C16 (colour clamp): for pct < 0 the colour is that of 0, for pct > 100
\* that of 100, and every component of every colour lies in [0,1].
C16_ColorSaturado ==
    pc \in PcsConColores =>
        /\ Len(colores_proc) = Len(proc_vals)
        /\ Len(colores_mem) = Len(mem_vals)
        /\ \A i \in 1..Len(proc_vals) :
               /\ proc_vals[i] < 0 => colores_proc[i] = color_por_porcentaje(0)
               /\ proc_vals[i] > 10000 => colores_proc[i] = color_por_porcentaje(10000)
               /\ \A k \in 1..3 : colores_proc[i][k] \in 0..10000
        /\ \A i \in 1..Len(mem_vals) :
               /\ mem_vals[i] < 0 => colores_mem[i] = color_por_porcentaje(0)
               /\ mem_vals[i] > 10000 => colores_mem[i] = color_por_porcentaje(10000)
               /\ \A k \in 1..3 : colores_mem[i][k] \in 0..10000

\* a render of -10 % and 150 %: pure green and pure red
C16_Testigo ==
    /\ pc = "pausa"
    /\ proc_vals = <<-1000>>
    /\ mem_vals = <<15000>>
    /\ dibujo.colores_proc = <<(<<0, 10000, 0>>)>>
    /\ dibujo.colores_mem = <<(<<10000, 0, 0>>)>>

PcsQueLeenBuffers == {"recorta", "geometria", "colores", "dibuja", "pausa"}

\* C18 (lockstep buffers): where the buffers are read, during eviction and at
\* every render, t_muestras, proc_vals and mem_vals have the same length and
\* index i of each is the same sample (the one of the i-th of the last rows
\* written); the x-positions, both heights and both colours of a render have
\* the same length.
C18_BuffersAlPaso ==
    /\ pc \in PcsQueLeenBuffers =>
           LET n == Len(t_muestras)
           IN  /\ Len(proc_vals) = n
               /\ Len(mem_vals) = n
               /\ n <= NumMuestras(disco)
               /\ \A i \in 1..n :
                      disco[Len(disco) - n + i]
                          = FilaMuestra(t_muestras[i], proc_vals[i], mem_vals[i])
    /\ pc \in PcsConColores =>
           /\ Len(x) = Len(t_muestras)
           /\ Len(colores_proc) = Len(x)
           /\ Len(colores_mem) = Len(x)
    /\ pc = "pausa" =>
           /\ dibujo.x = x
           /\ dibujo.proc = proc_vals
           /\ dibujo.mem = mem_vals
           /\ Len(dibujo.proc) = Len(dibujo.x)
           /\ Len(dibujo.mem) = Len(dibujo.x)
           /\ Len(dibujo.colores_proc) = Len(dibujo.x)
           /\ Len(dibujo.colores_mem) = Len(dibujo.x)

\* a render after an eviction, of two samples with different loads
C18_Testigo ==
    /\ pc = "pausa"
    /\ ticks = 3
    /\ Len(dibujo.x) = 2
    /\ dibujo.proc[1] # dibujo.proc[2]
    /\ dibujo.mem[1] # dibujo.mem[2]

\* C19 (flush after every row): at plt.pause no row is written and not
\* flushed; a kill loses at most the row of the tick in flight, never a row
\* of a completed tick; and a shutdown through the finally block leaves every
\* row written in the file.
C19_FlushTrasCadaFila ==
    [][/\ pc' = "pausa" => buf' = <<>>
       /\ (pc # "fin" /\ pc' = "fin" /\ causa' = "kill") =>
              /\ disco' = disco
              /\ NumMuestras(buf) <= 1
              /\ (pc \in PcsBucle /\ buf # <<>>) =>
                     /\ pc = "flush"
                     /\ buf = <<FilaMuestra(ahora, carga_proc, carga_mem)>>
       /\ (pc = "finally_close" /\ pc' # "finally_close" /\ causa' # "kill") =>
              disco' = disco \o buf]_vars

\* the eviction of the tick has run
PcsTrasRecorte == {"geometria", "colores", "dibuja", "pausa"}

\* C20 (the sample inserted in a tick is never evicted by that tick): after
\* every tick's eviction the deques are not empty and their tail is the sample
\* just inserted; its x-position is exactly W, and the branch x = [] of line
\* 111 is never taken.
C20_RecienInsertadaQueda ==
    /\ pc \in PcsTrasRecorte =>
           /\ t_muestras # <<>>
           /\ t_muestras[Len(t_muestras)] = ahora
           /\ proc_vals # <<>>
           /\ proc_vals[Len(proc_vals)] = carga_proc
           /\ mem_vals # <<>>
           /\ mem_vals[Len(mem_vals)] = carga_mem
    /\ pc \in PcsConGeometria =>
           /\ x # <<>>
           /\ x[Len(x)] = Ventana

\* a tick whose eviction has removed every older sample: the one just
\* inserted is alone in the deques and is drawn at x = W
C20_Testigo ==
    /\ pc = "pausa"
    /\ TicksDeLaCorrida >= 2
    /\ t_muestras = <<ahora>>
    /\ dibujo.x = <<Ventana>>

====
